---- MODULE Spec2Model ----
(***************************************************************************)
(* infallible_to_big_int: the traits InfallibleToBigInt and                *)
(* InfallibleToBigUint wrap num's fallible ToBigInt::to_bigint and         *)
(* ToBigUint::to_biguint and unwrap the Option with expect().              *)
(*                                                                         *)
(* A primitive integer is its little-endian two's-complement byte          *)
(* sequence (what to_le_bytes() gives): 128-bit values do not fit the      *)
(* model checker's integers, byte sequences keep every width exact.  A     *)
(* BigUint is its normalised little-endian magnitude (what to_bytes_le()   *)
(* gives, with the empty sequence for zero); a BigInt is a sign and such   *)
(* a magnitude.                                                            *)
(***************************************************************************)
EXTENDS Integers, Sequences, FiniteSets, TLC

VARIABLES ptr_width, lib_defect, ty, val, ret_int, ret_uint, th

vars == <<ptr_width, lib_defect, ty, val, ret_int, ret_uint, th>>

(***************************************************************************)
(* Bounds of the model.                                                    *)
(***************************************************************************)
\* Sampled bytes lie within MaxDelta of 0x00, of the sign boundary 0x7F/0x80
\* and of 0xFF.
MaxDelta == 1
\* Threads calling the conversions concurrently.
NThreads == 2

(***************************************************************************)
(* Primitive types.                                                        *)
(***************************************************************************)
SignedTypes == {"i8", "i16", "i32", "i64", "i128", "isize"}

UnsignedTypes == {"u8", "u16", "u32", "u64", "u128", "usize"}

FloatTypes == {"f32", "f64"}

PrimitiveTypes == SignedTypes \cup UnsignedTypes \cup FloatTypes

\* target_pointer_width of the platforms Rust supports.
PtrWidths == {16, 32, 64}

\* size_of::<T>() on a platform whose pointers have pw bits.
SizeOf(T, pw) ==
  CASE T \in {"i8", "u8"} -> 1
    [] T \in {"i16", "u16"} -> 2
    [] T \in {"i32", "u32", "f32"} -> 4
    [] T \in {"i64", "u64", "f64"} -> 8
    [] T \in {"i128", "u128"} -> 16
    [] T \in {"isize", "usize"} -> pw \div 8

(***************************************************************************)
(* Byte-sequence arithmetic of the fixed-width primitives.                 *)
(***************************************************************************)
IsZero(s) == \A i \in 1..Len(s) : s[i] = 0

\* n < 0 for a signed primitive: the top bit of the top byte.
IsNegative(s) == s[Len(s)] >= 128

\* `n as u64` / `n as i64` from a narrower unsigned type.
ZeroExtend(s, n) == [i \in 1..n |-> IF i <= Len(s) THEN s[i] ELSE 0]

\* `n as i64` from a narrower signed type.
SignExtend(s, n) ==
  [i \in 1..n |-> IF i <= Len(s) THEN s[i] ELSE IF IsNegative(s) THEN 255 ELSE 0]

\* uN::MAX - x
Complement(s) == [i \in 1..Len(s) |-> 255 - s[i]]

\* x + 1 in uN (wrapping)
Increment(s) ==
  LET low == {i \in 1..Len(s) : s[i] # 255}
  IN IF low = {} THEN [i \in 1..Len(s) |-> 0]
     ELSE LET k == CHOOSE i \in low : \A j \in low : i <= j
          IN [i \in 1..Len(s) |-> IF i < k THEN 0 ELSE IF i = k THEN s[i] + 1 ELSE s[i]]

\* The digits left once the most significant zero digits are dropped.
Normalized(s) ==
  LET nz == {i \in 1..Len(s) : s[i] # 0}
  IN IF nz = {} THEN <<>>
     ELSE SubSeq(s, 1, CHOOSE i \in nz : \A j \in nz : j <= i)

(***************************************************************************)
(* Option<T> and Option::expect.                                           *)
(***************************************************************************)
None == [some |-> FALSE]

Some(x) == [some |-> TRUE, val |-> x]

\* Option::unwrap on the success path.
unwrap(opt) == opt.val

\* Option::expect: the value of Some, a panic carrying msg on None.
expect(opt, msg) ==
  IF opt.some THEN [kind |-> "ok", val |-> opt.val]
  ELSE [kind |-> "panic", msg |-> msg]

(***************************************************************************)
(* The num crate's conversions, which the wrappers call.  One digit of the *)
(* magnitude is one byte here; num's BigDigit is wider, and its digits     *)
(* are the same little-endian bytes grouped.                               *)
(***************************************************************************)
\* BigUint::from(uN): push digits while n != 0.
BigUint_from(s) == Normalized(s)

\* BigInt::zero()
BigInt_zero == [sign |-> "NoSign", data |-> <<>>]

\* BigInt::from(uN): if n > 0 { Plus, BigUint::from(n) } else { zero }.
BigInt_from_unsigned(s) ==
  IF IsZero(s) THEN BigInt_zero
  ELSE [sign |-> "Plus", data |-> BigUint_from(s)]

\* BigInt::from(iN): if n >= 0 { from(n as uN) }
\* else { Minus, BigUint::from(uN::MAX - (n as uN) + 1) }.
BigInt_from_signed(s) ==
  IF ~IsNegative(s) THEN BigInt_from_unsigned(s)
  ELSE [sign |-> "Minus", data |-> BigUint_from(Increment(Complement(s)))]

\* <T as ToBigInt>::to_bigint: FromPrimitive::from_T, which widens every
\* type but the 128-bit ones to 64 bits (from_i64 / from_u64).
ToBigInt_to_bigint(T, v) ==
  CASE T \in {"i8", "i16", "i32", "i64", "isize"} ->
         Some(BigInt_from_signed(SignExtend(v, 8)))
    [] T = "i128" -> Some(BigInt_from_signed(v))
    [] T \in {"u8", "u16", "u32", "u64", "usize"} ->
         Some(BigInt_from_unsigned(ZeroExtend(v, 8)))
    [] T = "u128" -> Some(BigInt_from_unsigned(v))

\* <T as ToBigUint>::to_biguint: from_i64 / from_i128 give None below zero.
ToBigUint_to_biguint(T, v) ==
  CASE T \in {"i8", "i16", "i32", "i64", "isize"} ->
         IF IsNegative(v) THEN None ELSE Some(BigUint_from(SignExtend(v, 8)))
    [] T = "i128" -> IF IsNegative(v) THEN None ELSE Some(BigUint_from(v))
    [] T \in {"u8", "u16", "u32", "u64", "usize"} ->
         Some(BigUint_from(ZeroExtend(v, 8)))
    [] T = "u128" -> Some(BigUint_from(v))

\* The call the wrapper makes.  Section 7's hypothesis of a defective
\* library (the conversion fails for an enumerated type) is `defect`.
Fallible_to_bigint(T, v, defect) ==
  IF defect THEN None ELSE ToBigInt_to_bigint(T, v)

Fallible_to_biguint(T, v, defect) ==
  IF defect THEN None ELSE ToBigUint_to_biguint(T, v)

(***************************************************************************)
(* trait InfallibleToBigInt and its impls.                                 *)
(***************************************************************************)
ImplInfallibleToBigInt_missing ==
  {"i8", "i16", "i32", "i64", "i128", "isize", "u8", "u16", "u32", "u64", "u128"}

\* The types with an `impl InfallibleToBigInt for T`.
ImplInfallibleToBigInt ==
  {"i8", "i16", "i32", "i64", "i128", "isize",
   "u8", "u16", "u32", "u64", "u128", "usize"}

ExpectMsg_to_bigint_pasted(T) ==
  "to_bigint failed for i8, this should not happen and is most likely a programming error"

\* The message each impl hands to expect().
ExpectMsg_to_bigint(T) ==
  CASE T = "i8" ->
         "to_bigint failed for i8, this should not happen and is most likely a programming error"
    [] T = "i16" ->
         "to_bigint failed for i16, this should not happen and is most likely a programming error"
    [] T = "i32" ->
         "to_bigint failed for i32, this should not happen and is most likely a programming error"
    [] T = "i64" ->
         "to_bigint failed for i64, this should not happen and is most likely a programming error"
    [] T = "i128" ->
         "to_bigint failed for i128, this should not happen and is most likely a programming error"
    [] T = "isize" ->
         "to_bigint failed for isize, this should not happen and is most likely a programming error"
    [] T = "u8" ->
         "to_bigint failed for u8, this should not happen and is most likely a programming error"
    [] T = "u16" ->
         "to_bigint failed for u16, this should not happen and is most likely a programming error"
    [] T = "u32" ->
         "to_bigint failed for u32, this should not happen and is most likely a programming error"
    [] T = "u64" ->
         "to_bigint failed for u64, this should not happen and is most likely a programming error"
    [] T = "u128" ->
         "to_bigint failed for u128, this should not happen and is most likely a programming error"
    [] T = "usize" ->
         "to_bigint failed for usize, this should not happen and is most likely a programming error"

\* `(*self as i64).to_bigint()`: the value squeezed through 64 bits.
to_bigint_via_i64(T, v, defect) ==
  LET wide == IF T \in SignedTypes THEN SignExtend(v, 16) ELSE ZeroExtend(v, 16)
  IN expect(Fallible_to_bigint("i64", SubSeq(wide, 1, 8), defect),
            ExpectMsg_to_bigint(T))

\* `ToBigUint::to_biguint(self).expect(..).into()`: through the unsigned type.
to_bigint_via_biguint(T, v, defect) ==
  LET r == expect(Fallible_to_biguint(T, v, defect), ExpectMsg_to_bigint(T))
  IN IF r.kind = "ok" THEN [kind |-> "ok", val |-> BigInt_from_unsigned(r.val)] ELSE r

\* The sign dropped: `self.unsigned_abs().to_bigint()`.
to_bigint_magnitude(T, v, defect) ==
  LET r == expect(Fallible_to_bigint(T, v, defect), ExpectMsg_to_bigint(T))
  IN IF r.kind = "ok" /\ r.val.sign = "Minus"
     THEN [kind |-> "ok", val |-> [sign |-> "Plus", data |-> r.val.data]] ELSE r

\* `(*self as u32).to_bigint()` in the native-size impls.
to_bigint_size_as_32(T, v, defect) ==
  expect(Fallible_to_bigint(T, IF T \in {"isize", "usize"} /\ Len(v) > 4 THEN SubSeq(v, 1, 4) ELSE v, defect),
         ExpectMsg_to_bigint(T))

\* `(*self as i128).to_bigint()` in the unsigned impls.
to_bigint_as_signed(T, v, defect) ==
  expect(Fallible_to_bigint(IF T = "u128" THEN "i128" ELSE T, v, defect),
         ExpectMsg_to_bigint(T))

\* <T as InfallibleToBigInt>::to_bigint(&v)
InfallibleToBigInt_to_bigint(T, v, defect) ==
  expect(Fallible_to_bigint(T, v, defect), ExpectMsg_to_bigint(T))

(***************************************************************************)
(* trait InfallibleToBigUint and its impls.                                *)
(***************************************************************************)
ImplInfallibleToBigUint_missing == {"u8", "u16", "u32", "u64", "u128"}

\* The types with an `impl InfallibleToBigUint for T`.
ImplInfallibleToBigUint == {"u8", "u16", "u32", "u64", "u128", "usize"}

\* The message each impl hands to expect().
ExpectMsg_to_biguint(T) ==
  CASE T = "u8" ->
         "to_biguint failed for u8, this should not happen and is most likely a programming error"
    [] T = "u16" ->
         "to_biguint failed for u16, this should not happen and is most likely a programming error"
    [] T = "u32" ->
         "to_biguint failed for u32, this should not happen and is most likely a programming error"
    [] T = "u64" ->
         "to_biguint failed for u64, this should not happen and is most likely a programming error"
    [] T = "u128" ->
         "to_biguint failed for u128, this should not happen and is most likely a programming error"
    [] T = "usize" ->
         "to_biguint failed for usize, this should not happen and is most likely a programming error"

\* `(*self as u64).to_biguint()`: the value squeezed through 64 bits.
to_biguint_via_u64(T, v, defect) ==
  expect(Fallible_to_biguint("u64", SubSeq(v, 1, IF Len(v) < 8 THEN Len(v) ELSE 8), defect),
         ExpectMsg_to_biguint(T))

\* <T as InfallibleToBigUint>::to_biguint(&v)
InfallibleToBigUint_to_biguint(T, v, defect) ==
  expect(Fallible_to_biguint(T, v, defect), ExpectMsg_to_biguint(T))

\* A call site `x.to_bigint()` with x: T compiles only if T has an impl.
NoCall == [kind |-> "none"]

NoImpl == [kind |-> "no_impl"]

Call_to_bigint(T, v, defect) ==
  IF T \in ImplInfallibleToBigInt
  THEN InfallibleToBigInt_to_bigint(T, v, defect) ELSE NoImpl

Call_to_biguint(T, v, defect) ==
  IF T \in ImplInfallibleToBigUint
  THEN InfallibleToBigUint_to_biguint(T, v, defect) ELSE NoImpl

(***************************************************************************)
(* The values a caller may hold.  Eight-bit types are enumerated in full;  *)
(* wider ones take their lowest and highest byte from EdgeBytes and fill   *)
(* the lower and the upper half in between with 0x00 or 0xFF, which gives  *)
(* MIN, MAX, 0, -1, the 64-bit boundary inside the 128-bit types and       *)
(* their neighbours.                                                       *)
(***************************************************************************)
EdgeBytes ==
  (0..MaxDelta) \cup ((127 - MaxDelta)..(128 + MaxDelta)) \cup ((255 - MaxDelta)..255)

Pattern(lo, a, b, hi, n) ==
  [i \in 1..n |-> IF i = 1 THEN lo
                  ELSE IF i = n THEN hi
                  ELSE IF i <= n \div 2 THEN a ELSE b]

Values(n) ==
  IF n = 1 THEN {<<b>> : b \in 0..255}
  ELSE {Pattern(lo, a, b, hi, n) : lo \in EdgeBytes, a \in {0, 255},
                                   b \in {0, 255}, hi \in EdgeBytes}

\* T::MIN: the sign bit alone for a signed type, zero for an unsigned one.
MinOf(T, n) ==
  [i \in 1..n |-> IF T \in SignedTypes /\ i = n THEN 128 ELSE 0]

\* T::MAX: every bit but the sign bit for a signed type, every bit for an
\* unsigned one.
MaxOf(T, n) ==
  [i \in 1..n |-> IF T \in SignedTypes /\ i = n THEN 127 ELSE 255]

(***************************************************************************)
(* One caller: a value of some primitive type, on which it may call        *)
(* to_bigint() and to_biguint().                                           *)
(***************************************************************************)
NoThreads == <<>>

InitCaller ==
  /\ ptr_width \in PtrWidths
  /\ ty \in PrimitiveTypes
  /\ val \in Values(SizeOf(ty, ptr_width))
  /\ ret_int = NoCall
  /\ ret_uint = NoCall
  /\ th = NoThreads

Init ==
  /\ InitCaller
  /\ lib_defect = FALSE

\* Section 7's hypothesis: the library may be defective.
InitFault ==
  /\ InitCaller
  /\ lib_defect \in BOOLEAN

CallToBigInt ==
  /\ th = NoThreads
  /\ ret_int = NoCall
  /\ ret_int' = Call_to_bigint(ty, val, lib_defect)
  /\ UNCHANGED <<ptr_width, lib_defect, ty, val, ret_uint, th>>

CallToBigUint ==
  /\ th = NoThreads
  /\ ret_uint = NoCall
  /\ ret_uint' = Call_to_biguint(ty, val, lib_defect)
  /\ UNCHANGED <<ptr_width, lib_defect, ty, val, ret_int, th>>

Next == CallToBigInt \/ CallToBigUint

Spec == Init /\ [][Next]_vars

SpecFault == InitFault /\ [][Next]_vars

(***************************************************************************)
(* Threads calling the conversions concurrently.  A call takes &self: the  *)
(* thread's own value `self`, of which `given` records what it was when    *)
(* the call began.  The body is two steps, the library call and expect();  *)
(* `opt` and `ret` are locals of the call's own frame.                     *)
(***************************************************************************)
Threads == 1..NThreads

Idle == [pc |-> "idle"]

\* What a thread may call: the calls of the tests, to_bigint and to_biguint
\* on each implementing type at T::MIN and at T::MAX.
ConcCalls(pw) ==
  {[op |-> "to_bigint", ty |-> T, val |-> v]
     : <<T, v>> \in UNION {{<<T, MinOf(T, SizeOf(T, pw))>>, <<T, MaxOf(T, SizeOf(T, pw))>>}
                             : T \in ImplInfallibleToBigInt}}
  \cup
  {[op |-> "to_biguint", ty |-> T, val |-> v]
     : <<T, v>> \in UNION {{<<T, MinOf(T, SizeOf(T, pw))>>, <<T, MaxOf(T, SizeOf(T, pw))>>}
                             : T \in ImplInfallibleToBigUint}}

InitConc ==
  /\ ptr_width \in PtrWidths
  /\ lib_defect = FALSE
  /\ ty = "u8"
  /\ val = <<0>>
  /\ ret_int = NoCall
  /\ ret_uint = NoCall
  /\ th = [t \in Threads |-> Idle]

ThreadCall(t) ==
  /\ th # NoThreads
  /\ th[t].pc = "idle"
  /\ \E c \in ConcCalls(ptr_width) :
       th' = [th EXCEPT ![t] = [pc |-> "called", op |-> c.op, ty |-> c.ty,
                                self |-> c.val, given |-> c.val]]
  /\ UNCHANGED <<ptr_width, lib_defect, ty, val, ret_int, ret_uint>>

\* A library that kept its result in a static: the call fills in the
\* pending result of every thread that is inside a call of the same kind.
ThreadLibCall_static(t) ==
  /\ th # NoThreads
  /\ th[t].pc = "called"
  /\ LET opt == IF th[t].op = "to_bigint"
                THEN Fallible_to_bigint(th[t].ty, th[t].self, lib_defect)
                ELSE Fallible_to_biguint(th[t].ty, th[t].self, lib_defect)
     IN th' = [u \in Threads |->
                 IF th[u].pc = "called" /\ th[u].op = th[t].op
                 THEN [pc |-> "lib_returned", op |-> th[u].op, ty |-> th[u].ty,
                       self |-> th[u].self, given |-> th[u].given, opt |-> opt]
                 ELSE th[u]]
  /\ UNCHANGED <<ptr_width, lib_defect, ty, val, ret_int, ret_uint>>

\* ToBigInt::to_bigint(self) / ToBigUint::to_biguint(self)
ThreadLibCall(t) ==
  /\ th # NoThreads
  /\ th[t].pc = "called"
  /\ LET opt == IF th[t].op = "to_bigint"
                THEN Fallible_to_bigint(th[t].ty, th[t].self, lib_defect)
                ELSE Fallible_to_biguint(th[t].ty, th[t].self, lib_defect)
     IN th' = [th EXCEPT ![t] = [pc |-> "lib_returned", op |-> th[t].op,
                                 ty |-> th[t].ty, self |-> th[t].self,
                                 given |-> th[t].given, opt |-> opt]]
  /\ UNCHANGED <<ptr_width, lib_defect, ty, val, ret_int, ret_uint>>

\* .expect("... failed for T, ...") and the return
ThreadExpect(t) ==
  /\ th # NoThreads
  /\ th[t].pc = "lib_returned"
  /\ LET msg == IF th[t].op = "to_bigint" THEN ExpectMsg_to_bigint(th[t].ty)
                ELSE ExpectMsg_to_biguint(th[t].ty)
     IN th' = [th EXCEPT ![t] = [pc |-> "returned", op |-> th[t].op,
                                 ty |-> th[t].ty, self |-> th[t].self,
                                 given |-> th[t].given,
                                 ret |-> expect(th[t].opt, msg)]]
  /\ UNCHANGED <<ptr_width, lib_defect, ty, val, ret_int, ret_uint>>

NextConc == \E t \in Threads : ThreadCall(t) \/ ThreadLibCall(t) \/ ThreadExpect(t)

SpecConc == InitConc /\ [][NextConc]_vars

(***************************************************************************)
(* What the claims speak of: the number a primitive and a big integer      *)
(* denote.  Stated from the positional meaning of the digits, not by the   *)
(* conversions above.                                                      *)
(***************************************************************************)
IntegerTypes == SignedTypes \cup UnsignedTypes

\* The call compiled and ran: T implements the trait.
Ran(r) == r.kind \notin {"none", "no_impl"}

\* Digit i of a magnitude, zero beyond its length.
Digit(d, i) == IF i <= Len(d) THEN d[i] ELSE 0

\* A magnitude in normal form: no most significant zero digit.
WellFormedMagnitude(d) ==
  /\ \A i \in 1..Len(d) : d[i] \in 0..255
  /\ Len(d) > 0 => d[Len(d)] # 0

WellFormedBigInt(b) ==
  /\ WellFormedMagnitude(b.data)
  /\ b.sign \in {"Minus", "NoSign", "Plus"}
  /\ b.sign = "NoSign" <=> b.data = <<>>

\* The magnitude d is the unsigned number whose bytes are v.
SameMagnitude(d, v) ==
  /\ Len(d) <= Len(v)
  /\ \A i \in 1..Len(v) : Digit(d, i) = v[i]

\* The carry out of byte i when d and v are added.
RECURSIVE CarryOut(_, _, _)
CarryOut(d, v, i) ==
  IF i = 0 THEN 0 ELSE (Digit(d, i) + v[i] + CarryOut(d, v, i - 1)) \div 256

\* d + v = 2^(8 * Len(v)): d is the magnitude of the negative number whose
\* two's-complement bytes are v.
MagnitudeOfNegative(d, v) ==
  /\ Len(d) <= Len(v)
  /\ \A i \in 1..Len(v) : (Digit(d, i) + v[i] + CarryOut(d, v, i - 1)) % 256 = 0
  /\ CarryOut(d, v, Len(v)) = 1

\* The BigInt b denotes the number the value v of type T denotes.
DenotesSame(T, v, b) ==
  /\ WellFormedBigInt(b)
  /\ IF T \in SignedTypes /\ IsNegative(v)
     THEN b.sign = "Minus" /\ MagnitudeOfNegative(b.data, v)
     ELSE b.sign # "Minus" /\ SameMagnitude(b.data, v)

\* For the types of at most 16 bits the numbers themselves.
RECURSIVE MagnitudeValue(_)
MagnitudeValue(d) ==
  IF d = <<>> THEN 0 ELSE d[1] + 256 * MagnitudeValue(Tail(d))

PrimitiveValue(T, v) ==
  LET u == MagnitudeValue(v)
  IN IF T \in SignedTypes /\ IsNegative(v) THEN u - 2 ^ (8 * Len(v)) ELSE u

BigIntValue(b) ==
  IF b.sign = "Minus" THEN 0 - MagnitudeValue(b.data) ELSE MagnitudeValue(b.data)

Ones(n) == [i \in 1..n |-> 255]

Zeros(n) == [i \in 1..n |-> 0]

\* The diagnostic section 7 asks for: it names the operation and the type.
DiagnosticFor(op, T) ==
  op \o " failed for " \o T
     \o ", this should not happen and is most likely a programming error"

(***************************************************************************)
(* C1.  For every implementing type T and every value v of T,              *)
(* InfallibleToBigInt::to_bigint(&v) returns a BigInt that denotes exactly *)
(* v: a negative v gives Minus and the magnitude |v|, any other v gives    *)
(* its own bytes as the magnitude, nothing truncated or wrapped.           *)
(***************************************************************************)
C1_ToBigIntExact ==
  Ran(ret_int) =>
    /\ ret_int.kind = "ok"
    /\ DenotesSame(ty, val, ret_int.val)
    /\ Len(val) <= 2 => BigIntValue(ret_int.val) = PrimitiveValue(ty, val)

\* i32::MIN converted: Minus with magnitude 2^31.
C1_Witness ==
  /\ ty = "i32"
  /\ val = <<0, 0, 0, 128>>
  /\ ret_int = [kind |-> "ok", val |-> [sign |-> "Minus", data |-> <<0, 0, 0, 128>>]]

(***************************************************************************)
(* C2.  For every T in {u8, u16, u32, u64, u128, usize} and every value v  *)
(* of T, InfallibleToBigUint::to_biguint(&v) returns a BigUint that        *)
(* denotes exactly v; 0 gives 0 and the u8 255 gives 255.                  *)
(***************************************************************************)
C2_ToBigUintExact ==
  Ran(ret_uint) =>
    /\ ty \in UnsignedTypes
    /\ ret_uint.kind = "ok"
    /\ WellFormedMagnitude(ret_uint.val)
    /\ SameMagnitude(ret_uint.val, val)
    /\ Len(val) <= 2 => MagnitudeValue(ret_uint.val) = PrimitiveValue(ty, val)
    /\ IsZero(val) => ret_uint.val = <<>>
    /\ (ty = "u8" /\ val = <<255>>) => ret_uint.val = <<255>>

\* u128::MAX converted: sixteen bytes of 0xFF.
C2_Witness ==
  /\ ty = "u128"
  /\ val = Ones(16)
  /\ ret_uint = [kind |-> "ok", val |-> Ones(16)]

(***************************************************************************)
(* C3.  No failure: for every implementing type and every value of it,     *)
(* MIN and MAX included, the underlying conversion returns Some and the    *)
(* operation returns a value; expect() never panics.                       *)
(***************************************************************************)
C3_NoFailure ==
  /\ ty \in ImplInfallibleToBigInt => ToBigInt_to_bigint(ty, val).some
  /\ ty \in ImplInfallibleToBigUint => ToBigUint_to_biguint(ty, val).some
  /\ Ran(ret_int) => ret_int.kind = "ok"
  /\ Ran(ret_uint) => ret_uint.kind = "ok"

\* i64::MIN went through to_bigint and came back.
C3_Witness ==
  /\ ty = "i64"
  /\ val = MinOf("i64", 8)
  /\ ret_int.kind = "ok"

(***************************************************************************)
(* C4.  Pass-through: the wrapper's result is the underlying fallible      *)
(* conversion's result, unwrapped, for each implementing type and each     *)
(* value (the tests take T::MIN and T::MAX).                               *)
(***************************************************************************)
C4_PassThrough ==
  /\ Ran(ret_int) =>
       ret_int = [kind |-> "ok", val |-> unwrap(ToBigInt_to_bigint(ty, val))]
  /\ Ran(ret_uint) =>
       ret_uint = [kind |-> "ok", val |-> unwrap(ToBigUint_to_biguint(ty, val))]

\* test_i128's first assertion: i128::MIN through the wrapper.
C4_Witness ==
  /\ ty = "i128"
  /\ val = MinOf("i128", 16)
  /\ ret_int.kind = "ok"
  /\ ret_int.val.sign = "Minus"

(***************************************************************************)
(* C5.  Fatal on internal failure: when the underlying conversion returns  *)
(* None, the wrapper panics with the diagnostic that names its own         *)
(* operation and source type; it returns no value, default or other.       *)
(***************************************************************************)
C5_FatalOnFailure ==
  /\ (lib_defect /\ Ran(ret_int)) =>
       ret_int = [kind |-> "panic", msg |-> DiagnosticFor("to_bigint", ty)]
  /\ (lib_defect /\ Ran(ret_uint)) =>
       ret_uint = [kind |-> "panic", msg |-> DiagnosticFor("to_biguint", ty)]
  /\ (~lib_defect /\ Ran(ret_int)) => ret_int.kind = "ok"
  /\ (~lib_defect /\ Ran(ret_uint)) => ret_uint.kind = "ok"

\* Both conversions of a usize panicked on a defective library.
C5_Witness ==
  /\ lib_defect
  /\ ty = "usize"
  /\ ret_int.kind = "panic"
  /\ ret_uint.kind = "panic"

(***************************************************************************)
(* C6.  As claimed: to_bigint is supported for the signed types only (the  *)
(* 8/16/32/64/128-bit signed integers and isize) and for no other type.    *)
(***************************************************************************)
C6_OnlySigned ==
  ret_int # NoCall => (Ran(ret_int) <=> ty \in SignedTypes)

(***************************************************************************)
(* C6, amended.  to_bigint is supported for exactly the twelve integer     *)
(* types, i8..i128, isize, u8..u128 and usize, and for no other type.      *)
(***************************************************************************)
C6_ExactlyTheIntegerTypes ==
  ret_int # NoCall => (Ran(ret_int) <=> ty \in IntegerTypes)

\* to_bigint ran on a usize.
C6_Witness ==
  /\ ty = "usize"
  /\ ret_int.kind = "ok"
  /\ ret_uint = NoCall

(***************************************************************************)
(* C7.  to_biguint is supported for exactly u8, u16, u32, u64, u128 and    *)
(* usize: no signed type and no floating-point type is accepted by         *)
(* to_biguint, and no floating-point type is accepted by to_bigint.        *)
(***************************************************************************)
C7_ExactlyTheUnsignedTypes ==
  /\ ret_uint # NoCall => (Ran(ret_uint) <=> ty \in UnsignedTypes)
  /\ (ret_int # NoCall /\ ty \in FloatTypes) => ret_int = NoImpl

\* An f64 was offered to both conversions and neither accepted it.
C7_Witness ==
  /\ ty = "f64"
  /\ ret_int = NoImpl
  /\ ret_uint = NoImpl

(***************************************************************************)
(* C8.  The operations are pure and share nothing: under every             *)
(* interleaving of the threads' calls, a call leaves its input as it was   *)
(* and returns what the same call returns when run alone.                  *)
(***************************************************************************)
Alone(op, T, v) ==
  IF op = "to_bigint" THEN InfallibleToBigInt_to_bigint(T, v, FALSE)
  ELSE InfallibleToBigUint_to_biguint(T, v, FALSE)

C8_SameAsAlone ==
  \A t \in DOMAIN th :
    /\ th[t].pc # "idle" => th[t].self = th[t].given
    /\ th[t].pc = "returned" => th[t].ret = Alone(th[t].op, th[t].ty, th[t].given)

\* Thread 1 has returned from a call while thread 2 is inside a call of the
\* same operation on a value of another type, its library call done.
C8_Witness ==
  /\ th # NoThreads
  /\ th[1].pc = "returned"
  /\ th[1].ret.kind = "ok"
  /\ th[2].pc = "lib_returned"
  /\ th[2].op = th[1].op
  /\ th[2].ty # th[1].ty

(***************************************************************************)
(* C9.  Whatever the platform's pointer width w: usize::MAX = 2^w - 1      *)
(* converts to exactly 2^w - 1 with to_biguint and with to_bigint,         *)
(* isize::MIN to exactly -2^(w-1) and isize::MAX to exactly 2^(w-1) - 1,   *)
(* none of them panicking.                                                 *)
(***************************************************************************)
C9_NativeSizeExact ==
  LET n == ptr_width \div 8
  IN /\ (ty = "usize" /\ val = Ones(n) /\ ret_uint # NoCall) =>
          ret_uint = [kind |-> "ok", val |-> Ones(n)]
     /\ (ty = "usize" /\ val = Ones(n) /\ ret_int # NoCall) =>
          ret_int = [kind |-> "ok", val |-> [sign |-> "Plus", data |-> Ones(n)]]
     /\ (ty = "isize" /\ val = Zeros(n - 1) \o <<128>> /\ ret_int # NoCall) =>
          ret_int = [kind |-> "ok",
                     val |-> [sign |-> "Minus", data |-> Zeros(n - 1) \o <<128>>]]
     /\ (ty = "isize" /\ val = Ones(n - 1) \o <<127>> /\ ret_int # NoCall) =>
          ret_int = [kind |-> "ok",
                     val |-> [sign |-> "Plus", data |-> Ones(n - 1) \o <<127>>]]

\* On a 64-bit platform usize::MAX went through both conversions.
C9_Witness ==
  /\ ptr_width = 64
  /\ ty = "usize"
  /\ val = Ones(8)
  /\ ret_uint.kind = "ok"
  /\ ret_int.kind = "ok"

(***************************************************************************)
(* C10.  For every unsigned T and every value v of T, to_bigint(&v) and    *)
(* to_biguint(&v) denote the same number: the BigInt is not negative and   *)
(* its magnitude is the BigUint, u128::MAX included.                       *)
(***************************************************************************)
C10_CrossAgreement ==
  (ty \in UnsignedTypes /\ ret_int # NoCall /\ ret_uint # NoCall) =>
    /\ ret_int.kind = "ok"
    /\ ret_uint.kind = "ok"
    /\ ret_int.val.sign # "Minus"
    /\ ret_int.val.data = ret_uint.val
    /\ ret_int.val.sign = "NoSign" <=> ret_uint.val = <<>>

\* u128::MAX, beyond i128's range, converted both ways.
C10_Witness ==
  /\ ty = "u128"
  /\ val = Ones(16)
  /\ ret_int = [kind |-> "ok", val |-> [sign |-> "Plus", data |-> Ones(16)]]
  /\ ret_uint.kind = "ok"

====
